---- MODULE Spec2Model ----
(***************************************************************************)
(* Model of src/src/app.rs: the yew component App of battlebit-stats.      *)
(*                                                                         *)
(* The component owns a snapshot (server_data) and a timer handle.  It is  *)
(* driven by three messages (UpdateData, Updated, UpdateFailed) that come  *)
(* from create, from the fetch future spawned by send_future and from the  *)
(* callback of the gloo Timeout.  view turns the snapshot into four        *)
(* aggregates and three ranked lists.                                      *)
(***************************************************************************)
EXTENDS Integers, Sequences, FiniteSets, TLC

(***************************************************************************)
(* Bounds of the model.                                                    *)
(***************************************************************************)
\* longest server list the data provider returns
MaxLen == 3
\* number of timers the model lets the component arm (successful fetches)
MaxTimers == 2

(***************************************************************************)
(* Server records (battlebit_api::ServerData as read by app.rs: region(),  *)
(* map(), gamemode(), player_count(), queued_player_count()).              *)
(***************************************************************************)
Gamemodes ==
    { "InfanteryConquest", "TeamDeathmatch", "CaptureTheFlag", "VoxelFortify",
      "VoxelTrench", "FreeForAll", "Gamemode19", "Conquest", "Domination" }

ServerData(r, m, g, p, q) ==
    [region |-> r, map |-> m, gamemode |-> g,
     player_count |-> p, queued_player_count |-> q]

\* the records the modelled data provider can put in a list
ServerRecords ==
    { ServerData("EU", "Valley", "TeamDeathmatch", 10, 2),
      ServerData("EU", "Valley", "CaptureTheFlag", 5, 0),
      ServerData("NA", "Docks", "TeamDeathmatch", 8, 1) }

RECURSIVE SeqsUpTo(_, _)
SeqsUpTo(S, n) ==
    IF n = 0 THEN { <<>> }
    ELSE LET shorter == SeqsUpTo(S, n - 1)
         IN  shorter \cup { Append(s, x) : s \in shorter, x \in S }

\* the lists bbapi.server_list() can return
ServerLists == SeqsUpTo(ServerRecords, MaxLen)

(***************************************************************************)
(* Messages (enum Msg).                                                    *)
(***************************************************************************)
Msg(type, data) == [type |-> type, data |-> data]
UpdateData == Msg("UpdateData", <<>>)
Updated(data) == Msg("Updated", data)
UpdateFailed == Msg("UpdateFailed", <<>>)

None == 0

VARIABLES
    server_data,     \* App.server_data
    timer_handle,    \* App.timer_handle: None or the id of the Timeout it owns
    msgs,            \* messages sent to the component, not yet handled by update
    fetching,        \* fetch futures spawned by send_future and not yet resolved
    timers,          \* ids of the Timeouts that are armed: not fired, not dropped
    next_timer,      \* id the next Timeout::new gets
    render_pending,  \* a render is due: first render, or update returned true
    rendered,        \* what the last call of view produced
    issued,          \* history: number of fetches issued so far
    fire_count,      \* history: timer id -> number of times its callback ran
    failed           \* history: an UpdateFailed message has been handled

vars == << server_data, timer_handle, msgs, fetching, timers, next_timer,
           render_pending, rendered, issued, fire_count, failed >>


(***************************************************************************)
(* std::collections::HashMap<String, usize> as used by the folds: a        *)
(* function from the keys present to their values.                         *)
(***************************************************************************)
HashMap_new == << >>

\* HashMap::insert(key, value): adds the key, or overwrites its value
HashMap_insert(counts, key, value) ==
    [k \in DOMAIN counts \cup {key} |-> IF k = key THEN value ELSE counts[k]]

Front(s) == SubSeq(s, 1, Len(s) - 1)
Last(s) == s[Len(s)]

(***************************************************************************)
(* The aggregator: impl App, lines 22-80.  Each fold visits the records in *)
(* list order, starting from an empty map (or from (0, 0)).                *)
(***************************************************************************)
\* region_count whose Some arm stores 1 instead of adding 1
RECURSIVE region_count_Reset(_)
region_count_Reset(sd) ==
    IF sd = << >> THEN HashMap_new
    ELSE LET counts == region_count_Reset(Front(sd))
             region == Last(sd).region
         IN  HashMap_insert(counts, region, 1)

RECURSIVE region_count(_)
region_count(sd) ==
    IF sd = << >> THEN HashMap_new
    ELSE LET counts == region_count(Front(sd))
             region == Last(sd).region
         IN  IF region \in DOMAIN counts
             THEN [counts EXCEPT ![region] = @ + 1]
             ELSE HashMap_insert(counts, region, 1)

RECURSIVE map_count(_)
map_count(sd) ==
    IF sd = << >> THEN HashMap_new
    ELSE LET counts == map_count(Front(sd))
             map == Last(sd).map
         IN  IF map \in DOMAIN counts
             THEN [counts EXCEPT ![map] = @ + 1]
             ELSE HashMap_insert(counts, map, 1)

\* player_count that stores the counts of a record instead of adding them
RECURSIVE player_count_Assign(_)
player_count_Assign(sd) ==
    IF sd = << >> THEN << 0, 0 >>
    ELSE LET counts == player_count_Assign(Front(sd))
             server == Last(sd)
         IN  << server.player_count, server.queued_player_count >>

RECURSIVE player_count(_)
player_count(sd) ==
    IF sd = << >> THEN << 0, 0 >>
    ELSE LET counts == player_count(Front(sd))
             server == Last(sd)
         IN  << counts[1] + server.player_count,
                counts[2] + server.queued_player_count >>

\* Display of battlebit_api::Gamemode, used by the fallback arm: the variant's name
Gamemode_to_string(gamemode) == gamemode

gamemode_to_string(gamemode) ==
    CASE gamemode = "InfanteryConquest" -> "Infantery Conquest"
      [] gamemode = "TeamDeathmatch" -> "Team Deathmatch"
      [] gamemode = "CaptureTheFlag" -> "Capture The Flag"
      [] gamemode = "VoxelFortify" -> "Voxel Fortify"
      [] gamemode = "VoxelTrench" -> "Voxel Trench"
      [] gamemode = "FreeForAll" -> "Free For All"
      [] gamemode = "Gamemode19" -> "Gamemode 19"
      [] OTHER -> Gamemode_to_string(gamemode)

\* gamemode_count that counts under the variant's own text, without the
\* fixed names
RECURSIVE gamemode_count_Raw(_)
gamemode_count_Raw(sd) ==
    IF sd = << >> THEN HashMap_new
    ELSE LET counts == gamemode_count_Raw(Front(sd))
             gamemode == Gamemode_to_string(Last(sd).gamemode)
         IN  IF gamemode \in DOMAIN counts
             THEN [counts EXCEPT ![gamemode] = @ + 1]
             ELSE HashMap_insert(counts, gamemode, 1)

RECURSIVE gamemode_count(_)
gamemode_count(sd) ==
    IF sd = << >> THEN HashMap_new
    ELSE LET counts == gamemode_count(Front(sd))
             gamemode == gamemode_to_string(Last(sd).gamemode)
         IN  IF gamemode \in DOMAIN counts
             THEN [counts EXCEPT ![gamemode] = @ + 1]
             ELSE HashMap_insert(counts, gamemode, 1)

(***************************************************************************)
(* The ranking of view, lines 128-159.  HashMap::into_iter yields the      *)
(* entries in an order the map does not specify (it depends on the hasher  *)
(* keys of that map instance), so the order is an input of the ranking.    *)
(***************************************************************************)
\* the orders in which into_iter can yield the keys of a map
IterOrders(counts) ==
    LET keys == DOMAIN counts
        n == Cardinality(keys)
    IN  { order \in [1..n -> keys] :
            \A i, j \in 1..n : i /= j => order[i] /= order[j] }

\* .map(|(k,v)| (v,k)).collect::<BTreeMap<usize, String>>(): the pairs are
\* inserted one after the other, a later pair replacing an earlier one
\* that has the same count
RECURSIVE BTreeMap_collect(_)
BTreeMap_collect(pairs) ==
    IF pairs = << >> THEN << >>
    ELSE LET tree == BTreeMap_collect(Front(pairs))
             count == Last(pairs)[1]
             item == Last(pairs)[2]
         IN  [c \in DOMAIN tree \cup {count} |->
                 IF c = count THEN item ELSE tree[c]]

\* BTreeMap::into_iter: the keys in ascending order
RECURSIVE BTreeMap_keys(_)
BTreeMap_keys(keys) ==
    IF keys = {} THEN << >>
    ELSE LET least == CHOOSE k \in keys : \A other \in keys : k <= other
         IN  << least >> \o BTreeMap_keys(keys \ {least})

\* Iterator::rev
Rev(s) == [i \in 1..Len(s) |-> s[Len(s) + 1 - i]]

\* format!("{item} ({count})")
Format(item, count) == item \o " (" \o ToString(count) \o ")"

\* Ranked without the .rev() of lines 133, 144 and 155
Ranked_NoRev(counts, order) ==
    LET pairs == [i \in 1..Len(order) |-> << counts[order[i]], order[i] >>]
        tree == BTreeMap_collect(pairs)
        keys == BTreeMap_keys(DOMAIN tree)
    IN  [i \in 1..Len(keys) |->
            [item |-> tree[keys[i]], count |-> keys[i],
             text |-> Format(tree[keys[i]], keys[i])]]

\* one ranked list of view: the entries of `counts`, yielded in `order`
Ranked(counts, order) ==
    LET pairs == [i \in 1..Len(order) |-> << counts[order[i]], order[i] >>]
        tree == BTreeMap_collect(pairs)
        keys == Rev(BTreeMap_keys(DOMAIN tree))
    IN  [i \in 1..Len(keys) |->
            [item |-> tree[keys[i]], count |-> keys[i],
             text |-> Format(tree[keys[i]], keys[i])]]

\* nothing has been rendered yet
NoRender ==
    [valid |-> FALSE, of |-> << >>, maps |-> << >>, gamemodes |-> << >>,
     regions |-> << >>, players |-> << 0, 0 >>]

(***************************************************************************)
(* Component::create, lines 86-93: sends UpdateData and returns the        *)
(* component with an empty snapshot and no timer.  The framework renders   *)
(* a created component once.                                               *)
(***************************************************************************)
Init ==
    /\ server_data = << >>
    /\ timer_handle = None
    /\ msgs = << UpdateData >>
    /\ fetching = 0
    /\ timers = {}
    /\ next_timer = 1
    /\ render_pending = TRUE
    /\ rendered = NoRender
    /\ issued = 0
    /\ fire_count = << >>
    /\ failed = FALSE

(***************************************************************************)
(* Component::update, lines 95-125, one action per arm of the match.       *)
(***************************************************************************)
\* HandleUpdateData that empties the snapshot while the fetch is under way
\* and asks for a render
HandleUpdateData_Clear ==
    /\ msgs /= << >>
    /\ Head(msgs).type = "UpdateData"
    /\ msgs' = Tail(msgs)
    /\ fetching' = fetching + 1
    /\ issued' = issued + 1
    /\ server_data' = << >>
    /\ render_pending' = TRUE
    /\ UNCHANGED << timer_handle, timers, next_timer,
                    rendered, fire_count, failed >>

\* Msg::UpdateData, lines 97-108: spawns the fetch future, returns false
HandleUpdateData ==
    /\ msgs /= << >>
    /\ Head(msgs).type = "UpdateData"
    /\ msgs' = Tail(msgs)
    /\ fetching' = fetching + 1
    /\ issued' = issued + 1
    /\ UNCHANGED << server_data, timer_handle, timers, next_timer,
                    render_pending, rendered, fire_count, failed >>

\* HandleUpdated that also sends UpdateData at once, next to arming the timer
HandleUpdated_Eager ==
    /\ msgs /= << >>
    /\ Head(msgs).type = "Updated"
    /\ msgs' = Append(Tail(msgs), UpdateData)
    /\ server_data' = Head(msgs).data
    /\ timers' = (timers \ {timer_handle}) \cup {next_timer}
    /\ timer_handle' = next_timer
    /\ next_timer' = next_timer + 1
    /\ fire_count' = HashMap_insert(fire_count, next_timer, 0)
    /\ render_pending' = TRUE
    /\ UNCHANGED << fetching, rendered, issued, failed >>

\* HandleUpdated that returns false
HandleUpdated_NoRender ==
    /\ msgs /= << >>
    /\ Head(msgs).type = "Updated"
    /\ msgs' = Tail(msgs)
    /\ server_data' = Head(msgs).data
    /\ timers' = (timers \ {timer_handle}) \cup {next_timer}
    /\ timer_handle' = next_timer
    /\ next_timer' = next_timer + 1
    /\ fire_count' = HashMap_insert(fire_count, next_timer, 0)
    /\ UNCHANGED << fetching, render_pending, rendered, issued, failed >>

\* HandleUpdated that does not store the handle of the new Timeout, which
\* is dropped at the end of the arm and so cancelled
HandleUpdated_Drop ==
    /\ msgs /= << >>
    /\ Head(msgs).type = "Updated"
    /\ msgs' = Tail(msgs)
    /\ server_data' = Head(msgs).data
    /\ next_timer' = next_timer + 1
    /\ fire_count' = HashMap_insert(fire_count, next_timer, 0)
    /\ render_pending' = TRUE
    /\ UNCHANGED << timer_handle, timers, fetching, rendered, issued, failed >>

\* HandleUpdated that extends the snapshot with the new list instead of
\* replacing it
HandleUpdated_Extend ==
    /\ msgs /= << >>
    /\ Head(msgs).type = "Updated"
    /\ msgs' = Tail(msgs)
    /\ server_data' = server_data \o Head(msgs).data
    /\ timers' = (timers \ {timer_handle}) \cup {next_timer}
    /\ timer_handle' = next_timer
    /\ next_timer' = next_timer + 1
    /\ fire_count' = HashMap_insert(fire_count, next_timer, 0)
    /\ render_pending' = TRUE
    /\ UNCHANGED << fetching, rendered, issued, failed >>

\* HandleUpdated that arms a second Timeout and leaks it (Timeout::forget)
\* next to the one whose handle it stores
HandleUpdated_Leak ==
    /\ msgs /= << >>
    /\ Head(msgs).type = "Updated"
    /\ msgs' = Tail(msgs)
    /\ server_data' = Head(msgs).data
    /\ timers' = (timers \ {timer_handle}) \cup {next_timer, next_timer + 1}
    /\ timer_handle' = next_timer
    /\ next_timer' = next_timer + 2
    /\ fire_count' =
           HashMap_insert(HashMap_insert(fire_count, next_timer, 0),
                          next_timer + 1, 0)
    /\ render_pending' = TRUE
    /\ UNCHANGED << fetching, rendered, issued, failed >>

\* Msg::Updated(data), lines 109-120: replaces the snapshot, arms a new
\* Timeout and stores its handle (the handle stored before is dropped,
\* which cancels its timer if that is still armed), returns true
HandleUpdated ==
    /\ msgs /= << >>
    /\ Head(msgs).type = "Updated"
    /\ msgs' = Tail(msgs)
    /\ server_data' = Head(msgs).data
    /\ timers' = (timers \ {timer_handle}) \cup {next_timer}
    /\ timer_handle' = next_timer
    /\ next_timer' = next_timer + 1
    /\ fire_count' = HashMap_insert(fire_count, next_timer, 0)
    /\ render_pending' = TRUE
    /\ UNCHANGED << fetching, rendered, issued, failed >>

\* HandleUpdateFailed that clears the snapshot
HandleUpdateFailed_Clear ==
    /\ msgs /= << >>
    /\ Head(msgs).type = "UpdateFailed"
    /\ msgs' = Tail(msgs)
    /\ failed' = TRUE
    /\ server_data' = << >>
    /\ UNCHANGED << timer_handle, fetching, timers, next_timer,
                    render_pending, rendered, issued, fire_count >>

\* HandleUpdateFailed that retries at once by sending UpdateData
HandleUpdateFailed_Retry ==
    /\ msgs /= << >>
    /\ Head(msgs).type = "UpdateFailed"
    /\ msgs' = Append(Tail(msgs), UpdateData)
    /\ failed' = TRUE
    /\ UNCHANGED << server_data, timer_handle, fetching, timers, next_timer,
                    render_pending, rendered, issued, fire_count >>

\* Msg::UpdateFailed, lines 121-123: returns false
HandleUpdateFailed ==
    /\ msgs /= << >>
    /\ Head(msgs).type = "UpdateFailed"
    /\ msgs' = Tail(msgs)
    /\ failed' = TRUE
    /\ UNCHANGED << server_data, timer_handle, fetching, timers, next_timer,
                    render_pending, rendered, issued, fire_count >>

(***************************************************************************)
(* The environment of update.  The fetch future and the timer callback run *)
(* from the event loop, so only when the component's scheduler has nothing *)
(* left to do (no message to handle, no render due).                       *)
(***************************************************************************)
SchedulerIdle == msgs = << >> /\ ~render_pending

\* the future of lines 98-105 resolves with Ok(data): Msg::Updated(data)
FetchSucceeds(data) ==
    /\ SchedulerIdle
    /\ fetching > 0
    /\ next_timer <= MaxTimers
    /\ fetching' = fetching - 1
    /\ msgs' = Append(msgs, Updated(data))
    /\ UNCHANGED << server_data, timer_handle, timers, next_timer,
                    render_pending, rendered, issued, fire_count, failed >>

\* the future of lines 98-105 resolves with Err(_): Msg::UpdateFailed
FetchFails ==
    /\ SchedulerIdle
    /\ fetching > 0
    /\ fetching' = fetching - 1
    /\ msgs' = Append(msgs, UpdateFailed)
    /\ UNCHANGED << server_data, timer_handle, timers, next_timer,
                    render_pending, rendered, issued, fire_count, failed >>

\* TimerFires of a repeating timer (an Interval in place of the Timeout):
\* the timer stays armed after its callback ran
TimerFires_Interval(t) ==
    /\ SchedulerIdle
    /\ t \in timers
    /\ timers' = timers
    /\ msgs' = Append(msgs, UpdateData)
    /\ fire_count' = [fire_count EXCEPT ![t] = @ + 1]
    /\ UNCHANGED << server_data, timer_handle, fetching, next_timer,
                    render_pending, rendered, issued, failed >>

\* the callback of the Timeout of line 114 runs, once: link.send_message(UpdateData)
TimerFires(t) ==
    /\ SchedulerIdle
    /\ t \in timers
    /\ timers' = timers \ {t}
    /\ msgs' = Append(msgs, UpdateData)
    /\ fire_count' = [fire_count EXCEPT ![t] = @ + 1]
    /\ UNCHANGED << server_data, timer_handle, fetching, next_timer,
                    render_pending, rendered, issued, failed >>

(***************************************************************************)
(* Component::view, lines 127-218: the three ranked lists and the player   *)
(* totals of the current snapshot.                                         *)
(***************************************************************************)
\* View that takes the records out of the snapshot to aggregate them
View_Take ==
    /\ render_pending
    /\ \E om \in IterOrders(map_count(server_data)),
          og \in IterOrders(gamemode_count(server_data)),
          orr \in IterOrders(region_count(server_data)) :
            rendered' =
                [valid |-> TRUE,
                 of |-> server_data,
                 maps |-> Ranked(map_count(server_data), om),
                 gamemodes |-> Ranked(gamemode_count(server_data), og),
                 regions |-> Ranked(region_count(server_data), orr),
                 players |-> player_count(server_data)]
    /\ render_pending' = FALSE
    /\ server_data' = << >>
    /\ UNCHANGED << timer_handle, msgs, fetching, timers,
                    next_timer, issued, fire_count, failed >>

View ==
    /\ render_pending
    /\ \E om \in IterOrders(map_count(server_data)),
          og \in IterOrders(gamemode_count(server_data)),
          orr \in IterOrders(region_count(server_data)) :
            rendered' =
                [valid |-> TRUE,
                 of |-> server_data,
                 maps |-> Ranked(map_count(server_data), om),
                 gamemodes |-> Ranked(gamemode_count(server_data), og),
                 regions |-> Ranked(region_count(server_data), orr),
                 players |-> player_count(server_data)]
    /\ render_pending' = FALSE
    /\ UNCHANGED << server_data, timer_handle, msgs, fetching, timers,
                    next_timer, issued, fire_count, failed >>

Next ==
    \/ HandleUpdateData
    \/ HandleUpdated
    \/ HandleUpdateFailed
    \/ \E data \in ServerLists : FetchSucceeds(data)
    \/ FetchFails
    \/ \E t \in timers : TimerFires(t)
    \/ View

Spec == Init /\ [][Next]_vars


(***************************************************************************)
(* The same component under the scheduling its environment provides: the   *)
(* framework handles every message sent and does every render that is due, *)
(* an armed timer fires, and a fetch in flight resolves one way or the     *)
(* other.                                                                  *)
(***************************************************************************)
\* longest server list of FairSpec
MaxFairLen == 2

\* the lists bbapi.server_list() can return in FairSpec
FairLists == SeqsUpTo(ServerRecords, MaxFairLen)

FetchCompletes == (\E data \in FairLists : FetchSucceeds(data)) \/ FetchFails

FairNext ==
    \/ HandleUpdateData
    \/ HandleUpdated
    \/ HandleUpdateFailed
    \/ \E data \in FairLists : FetchSucceeds(data)
    \/ FetchFails
    \/ \E t \in timers : TimerFires(t)
    \/ View

\* The fairness of View is stated as []<>(~render_pending): View is enabled
\* exactly when render_pending holds and a View step ends that, so this is
\* WF_vars(View).
Fairness ==
    /\ WF_vars(HandleUpdateData)
    /\ WF_vars(HandleUpdated)
    /\ WF_vars(HandleUpdateFailed)
    /\ []<>(~render_pending)
    /\ WF_vars(\E t \in timers : TimerFires(t))
    /\ WF_vars(FetchCompletes)

FairSpec == Init /\ [][FairNext]_vars /\ Fairness

(***************************************************************************)
(* The labelling of gamemodes, on its own: the component right after an    *)
(* Updated(data) whose records carry any of the gamemodes, and the render  *)
(* that follows it.                                                        *)
(***************************************************************************)
\* longest server list of LabelSpec
MaxLabelLen == 2

\* records with every gamemode
LabelRecords ==
    { ServerData(r, "Valley", g, 1, 0) : r \in { "EU", "NA" }, g \in Gamemodes }

InitLabel ==
    /\ server_data \in SeqsUpTo(LabelRecords, MaxLabelLen)
    /\ timer_handle = 1
    /\ msgs = << >>
    /\ fetching = 0
    /\ timers = { 1 }
    /\ next_timer = 2
    /\ render_pending = TRUE
    /\ rendered = NoRender
    /\ issued = 1
    /\ fire_count = HashMap_insert(HashMap_new, 1, 0)
    /\ failed = FALSE

NextLabel == View

LabelSpec == InitLabel /\ [][NextLabel]_vars

(***************************************************************************)
(* Properties.                                                             *)
(***************************************************************************)
\* messages of the given type waiting to be handled
Pending(type) == Cardinality({ i \in 1..Len(msgs) : msgs[i].type = type })

\* fetches issued whose result update has not handled yet
Outstanding == fetching + Pending("Updated") + Pending("UpdateFailed")

\* the step in which update handles a message of the given type
Handles(type) ==
    /\ msgs /= << >>
    /\ Head(msgs).type = type
    /\ msgs' /= msgs

\* C1: at most one fetch is in flight in every reachable state, and no
\* fetch is about to be issued (an UpdateData waiting) while one is in flight.
OneFetchInFlight ==
    /\ Outstanding <= 1
    /\ Pending("UpdateData") > 0 => Outstanding = 0
    /\ Pending("UpdateData") <= 1

\* a second fetch is in flight, after the first one delivered its result
OneFetchInFlightWitness == fetching = 1 /\ issued = 2

\* C2: handling UpdateFailed leaves the snapshot as it was and arms no
\* timer: no timer is pending afterwards.
FailureKeepsSnapshot ==
    [][Handles("UpdateFailed") =>
          /\ server_data' = server_data
          /\ timer_handle' = timer_handle
          /\ timers' = timers
          /\ timers' = {}]_vars

\* a failure was handled while the snapshot held a full list
FailureKeepsSnapshotWitness ==
    failed /\ Len(server_data) = MaxLen /\ timers = {}

\* C3: handling Updated(records) makes the snapshot exactly records (the
\* same N records) and leaves exactly one timer pending, the one whose
\* handle is stored.
SuccessInstallsSnapshot ==
    [][Handles("Updated") =>
          /\ server_data' = Head(msgs).data
          /\ Len(server_data') = Len(Head(msgs).data)
          /\ Cardinality(timers') = 1
          /\ timers' = {timer_handle'}]_vars

\* the second successful fetch has just been handled, over a snapshot
\* that was not empty
SuccessInstallsSnapshotWitness ==
    /\ next_timer = 3
    /\ render_pending
    /\ rendered.valid /\ rendered.of /= << >>
    /\ Len(server_data) = MaxLen
    /\ timers = {timer_handle}

RECURSIVE SumValues(_)
SumValues(counts) ==
    IF DOMAIN counts = {} THEN 0
    ELSE LET k == CHOOSE x \in DOMAIN counts : TRUE
         IN  counts[k] + SumValues([x \in DOMAIN counts \ {k} |-> counts[x]])

\* C4: each armed timer fires at most once, each firing leads to exactly
\* one fetch being issued (the fetches issued or about to be are the one of
\* create plus one per firing), and no timer is pending while a fetch is
\* outstanding.
TimerFiresOnce ==
    /\ \A t \in DOMAIN fire_count : fire_count[t] <= 1
    /\ issued + Pending("UpdateData") = 1 + SumValues(fire_count)
    /\ Outstanding > 0 => timers = {}

\* a timer has fired and the fetch it caused is in flight
TimerFiresOnceWitness ==
    /\ fetching = 1
    /\ \E t \in DOMAIN fire_count : fire_count[t] = 1

\* C5: at most one timer is pending in every reachable state.
AtMostOneTimer == Cardinality(timers) <= 1

\* a timer is pending that was armed while the handle of an earlier timer
\* was stored
AtMostOneTimerWitness == Cardinality(timers) = 1 /\ next_timer = 3

\* C6: once an UpdateFailed has been handled nothing changes any more: no
\* message is sent or handled, no fetch issued, no timer armed, and the
\* snapshot stays as it is.
DeadAfterFailure ==
    [][failed =>
          UNCHANGED << server_data, timer_handle, msgs, fetching, timers,
                       next_timer, issued >>]_vars

\* a fetch failed after an earlier one had succeeded
DeadAfterFailureWitness == failed /\ next_timer > 1 /\ issued = 2

\* C7: the snapshot is empty until the first Updated is handled, and it
\* only ever changes by becoming the complete list carried by the Updated
\* message being handled (the result of the latest successful fetch).
SnapshotAtomic ==
    /\ [](next_timer = 1 => server_data = << >>)
    /\ [][server_data' /= server_data =>
             /\ Handles("Updated")
             /\ server_data' = Head(msgs).data]_vars

\* a snapshot has been replaced by a different, shorter one
SnapshotAtomicWitness ==
    /\ next_timer = 3
    /\ rendered.valid /\ Len(rendered.of) = MaxLen
    /\ Len(server_data) = 1

\* C8: the counts of region_count, of map_count and of gamemode_count each
\* sum to the number of records of the list.
CountsSumToLen ==
    /\ SumValues(region_count(server_data)) = Len(server_data)
    /\ SumValues(map_count(server_data)) = Len(server_data)
    /\ SumValues(gamemode_count(server_data)) = Len(server_data)

\* a list in which a region, a map and a gamemode occur more than once
\* next to another one
CountsSumToLenWitness ==
    /\ Len(server_data) = MaxLen
    /\ \E r \in DOMAIN region_count(server_data) :
          region_count(server_data)[r] > 1
    /\ Cardinality(DOMAIN region_count(server_data)) > 1
    /\ Cardinality(DOMAIN map_count(server_data)) > 1
    /\ Cardinality(DOMAIN gamemode_count(server_data)) > 1

\* two lists hold the same records, in whatever order
SameRecords(a, b) ==
    /\ Len(a) = Len(b)
    /\ \A r \in ServerRecords :
          Cardinality({ i \in 1..Len(a) : a[i] = r })
              = Cardinality({ i \in 1..Len(b) : b[i] = r })

\* C9: a render of a snapshot that holds the same records as the snapshot
\* rendered before it, in the same or another order, shows the same ranked
\* lists of maps, gamemodes and regions.
RankingDeterministic ==
    [][(/\ render_pending /\ ~render_pending'
        /\ rendered.valid
        /\ SameRecords(rendered.of, server_data))
       => /\ rendered'.maps = rendered.maps
          /\ rendered'.gamemodes = rendered.gamemodes
          /\ rendered'.regions = rendered.regions]_vars

NonIncreasing(list) ==
    \A i, j \in 1..Len(list) : i < j => list[i].count >= list[j].count

\* C10: every ranked list view has produced is in non-increasing order of
\* count.
RankedDescending ==
    rendered.valid =>
        /\ NonIncreasing(rendered.maps)
        /\ NonIncreasing(rendered.gamemodes)
        /\ NonIncreasing(rendered.regions)

\* rendered lists that each hold two entries with different counts
RankedDescendingWitness ==
    /\ rendered.valid
    /\ Len(rendered.maps) = 2
    /\ Len(rendered.gamemodes) = 2
    /\ Len(rendered.regions) = 2

\* the label the specification gives a gamemode
ClaimedLabel(gamemode) ==
    CASE gamemode = "InfanteryConquest" -> "Infantry Conquest"
      [] gamemode = "TeamDeathmatch" -> "Team Deathmatch"
      [] gamemode = "CaptureTheFlag" -> "Capture The Flag"
      [] gamemode = "VoxelFortify" -> "Voxel Fortify"
      [] gamemode = "VoxelTrench" -> "Voxel Trench"
      [] gamemode = "FreeForAll" -> "Free For All"
      [] gamemode = "Gamemode19" -> "Gamemode 19"
      [] OTHER -> Gamemode_to_string(gamemode)

\* C11: the labels under which gamemode_count counts, and the labels view
\* shows, are those of the seven fixed names (Infantry Conquest, Team
\* Deathmatch, Capture The Flag, Voxel Fortify, Voxel Trench, Free For All,
\* Gamemode 19) and, for any other variant, the variant's own text.
GamemodeLabelsAsClaimed ==
    rendered.valid =>
        { rendered.gamemodes[i].item : i \in 1..Len(rendered.gamemodes) }
            \subseteq { ClaimedLabel(rendered.of[i].gamemode) :
                          i \in 1..Len(rendered.of) }

\* C12: player_count of the empty list is (0, 0), the totals of one record
\* are its two counts, and for every way of writing the snapshot as a ++ b
\* player_count(a ++ b) is player_count(a) + player_count(b), component by
\* component.
PlayerCountAdditive ==
    /\ player_count(<< >>) = << 0, 0 >>
    /\ \A i \in 1..Len(server_data) :
          player_count(<< server_data[i] >>)
              = << server_data[i].player_count,
                   server_data[i].queued_player_count >>
    /\ \A k \in 0..Len(server_data) :
          LET a == SubSeq(server_data, 1, k)
              b == SubSeq(server_data, k + 1, Len(server_data))
          IN  /\ player_count(a \o b)[1]
                     = player_count(a)[1] + player_count(b)[1]
              /\ player_count(a \o b)[2]
                     = player_count(a)[2] + player_count(b)[2]

\* view has shown the totals of a full list of different records
PlayerCountAdditiveWitness ==
    /\ rendered.valid
    /\ rendered.of = server_data
    /\ Len(server_data) = MaxLen
    /\ Cardinality({ server_data[i] : i \in 1..Len(server_data) }) > 1
    /\ rendered.players = player_count(server_data)
    /\ rendered.players[1] > rendered.players[2]
    /\ rendered.players[2] > 0

\* the snapshot of the specification's example
ExampleSnapshot ==
    << ServerData("EU", "Valley", "TeamDeathmatch", 10, 2),
       ServerData("EU", "Valley", "CaptureTheFlag", 5, 0),
       ServerData("NA", "Docks", "TeamDeathmatch", 8, 1) >>

\* counts is the mapping from the distinct values of labels to the number
\* of their occurrences
CountsOccurrences(counts, labels) ==
    /\ DOMAIN counts = { labels[i] : i \in 1..Len(labels) }
    /\ \A k \in DOMAIN counts :
          counts[k] = Cardinality({ i \in 1..Len(labels) : labels[i] = k })

\* C13: region_count, map_count and gamemode_count map exactly the distinct
\* regions, maps and gamemode labels of the snapshot to the number of
\* records that carry them; the empty snapshot gives empty mappings and the
\* example gives {EU:2, NA:1}, {Valley:2, Docks:1} and
\* {Team Deathmatch:2, Capture The Flag:1}.
CountsAreOccurrences ==
    /\ CountsOccurrences(region_count(server_data),
           [i \in 1..Len(server_data) |-> server_data[i].region])
    /\ CountsOccurrences(map_count(server_data),
           [i \in 1..Len(server_data) |-> server_data[i].map])
    /\ CountsOccurrences(gamemode_count(server_data),
           [i \in 1..Len(server_data) |->
               gamemode_to_string(server_data[i].gamemode)])
    /\ server_data = << >> =>
          /\ DOMAIN region_count(server_data) = {}
          /\ DOMAIN map_count(server_data) = {}
          /\ DOMAIN gamemode_count(server_data) = {}
    /\ server_data = ExampleSnapshot =>
          /\ region_count(server_data) = ("EU" :> 2 @@ "NA" :> 1)
          /\ map_count(server_data) = ("Valley" :> 2 @@ "Docks" :> 1)
          /\ gamemode_count(server_data)
                 = ("Team Deathmatch" :> 2 @@ "Capture The Flag" :> 1)

\* the snapshot is the example
CountsAreOccurrencesWitness ==
    /\ server_data = ExampleSnapshot
    /\ rendered.valid
    /\ rendered.of = ExampleSnapshot

\* the permutations of 1..n
Permutations1(n) ==
    { p \in [1..n -> 1..n] : \A i, j \in 1..n : i /= j => p[i] /= p[j] }

\* the step in which view runs
Renders == render_pending /\ ~render_pending'

\* C14: the four aggregates of the snapshot are those of every permutation
\* of its records, and the call of view, which computes them, leaves the
\* snapshot as it was, records and order.
AggregatesOrderIndependent ==
    /\ [](\A p \in Permutations1(Len(server_data)) :
            LET permuted == [i \in 1..Len(server_data) |-> server_data[p[i]]]
            IN  /\ region_count(permuted) = region_count(server_data)
                /\ map_count(permuted) = map_count(server_data)
                /\ gamemode_count(permuted) = gamemode_count(server_data)
                /\ player_count(permuted) = player_count(server_data))
    /\ [][Renders => server_data' = server_data]_vars

\* view has aggregated a full list whose records differ and whose reversal
\* is another list
AggregatesOrderIndependentWitness ==
    /\ rendered.valid
    /\ rendered.of = server_data
    /\ Len(server_data) = MaxLen
    /\ server_data /= Rev(server_data)

\* the step in which the callback of a timer runs
Fires == \E t \in DOMAIN fire_count : fire_count'[t] /= fire_count[t]

\* C15: no timer is pending while a fetch is outstanding, a timer only
\* fires when no fetch is outstanding, and a fetch is only issued for the
\* UpdateData of create or for the one sent by the timer that the latest
\* Updated armed, which has fired once.
NoTimerDuringFetch ==
    /\ [](Outstanding > 0 => timers = {})
    /\ [][Fires => Outstanding = 0]_vars
    /\ [][Handles("UpdateData") =>
             \/ issued = 0 /\ timer_handle = None
             \/ /\ timer_handle = next_timer - 1
                /\ fire_count[timer_handle] = 1
                /\ issued = next_timer - 1]_vars

\* the fetch that the timer of the second successful fetch caused is in flight
NoTimerDuringFetchWitness ==
    /\ fetching = 1
    /\ issued = 3
    /\ timer_handle = 2
    /\ fire_count[2] = 1

\* C16: handling Updated always asks for a render; a render shows the
\* snapshot as it is then and changes neither the snapshot nor the timer;
\* and whenever no render is due, what is shown is the current snapshot,
\* so the render after an Updated shows the list that Updated installed.
RenderAfterSuccess ==
    /\ [][Handles("Updated") => render_pending']_vars
    /\ [][Renders =>
             /\ rendered'.valid
             /\ rendered'.of = server_data
             /\ rendered'.players = player_count(server_data)
             /\ UNCHANGED << server_data, timer_handle, timers >>]_vars
    /\ [](~render_pending =>
             /\ rendered.valid
             /\ rendered.of = server_data
             /\ rendered.players = player_count(server_data))

\* the render after the second successful fetch has run, over a new list
RenderAfterSuccessWitness ==
    /\ ~render_pending
    /\ next_timer = 3
    /\ rendered.valid
    /\ rendered.of = server_data
    /\ Len(server_data) = MaxLen
    /\ timers = { 2 }

\* a ranked list has exactly one entry for every label of counts, with its count
ShowsEveryLabel(list, counts) ==
    /\ Len(list) = Cardinality(DOMAIN counts)
    /\ \A k \in DOMAIN counts :
          \E i \in 1..Len(list) : list[i].item = k /\ list[i].count = counts[k]

\* C17: each ranked list view has produced holds exactly one entry for
\* every label of the mapping it ranks, with that label's count, also when
\* labels share a count.
NoLabelDropped ==
    rendered.valid =>
        /\ ShowsEveryLabel(rendered.maps, map_count(rendered.of))
        /\ ShowsEveryLabel(rendered.gamemodes, gamemode_count(rendered.of))
        /\ ShowsEveryLabel(rendered.regions, region_count(rendered.of))

\* C18: under the fairness of FairSpec every successful fetch is followed
\* by another fetch: once the n-th Updated has been handled (n timers
\* armed), the fetch number n + 1 is eventually issued.
RefreshContinues ==
    \A n \in 1..MaxTimers : (next_timer = n + 1) ~> (issued >= n + 1)

\* a fetch is in flight that follows the last successful fetch of the run
RefreshContinuesWitness ==
    /\ next_timer = MaxTimers + 1
    /\ issued = MaxTimers + 1
    /\ fetching = 1
    /\ ~failed

\* C19: handling UpdateData or UpdateFailed leaves server_data and
\* timer_handle as they were and asks for no render, and every step that
\* changes server_data or timer_handle is the handling of an Updated.
OnlyUpdatedWrites ==
    /\ [][(Handles("UpdateData") \/ Handles("UpdateFailed")) =>
             UNCHANGED << server_data, timer_handle, render_pending >>]_vars
    /\ [][(server_data' /= server_data \/ timer_handle' /= timer_handle) =>
             Handles("Updated")]_vars

\* an UpdateData and an UpdateFailed have been handled over a snapshot
\* that is not empty and a stored handle, with no render due
OnlyUpdatedWritesWitness ==
    /\ failed
    /\ issued = 2
    /\ server_data /= << >>
    /\ timer_handle /= None
    /\ ~render_pending

====
